---- MODULE Spec2Model ----
(***************************************************************************)
(* Model of lipsync_tool/pipeline.py: the two resource provisioners        *)
(* (SadTalkerResources, Wav2LipResources) and LipSyncPipeline.run().       *)
(*                                                                         *)
(* The file system the code touches is the state: the output's parent      *)
(* directory, the output files, the scratch directories                    *)
(* <output-stem>_<engine>, and the two cache roots.  Every blocking        *)
(* external call (git clone, the download helper, gdown, the inference     *)
(* process, ffmpeg) is one step whose outcome the environment chooses; the *)
(* code between two of them is translated block by block, one action per   *)
(* block, sequenced by pc.                                                 *)
(***************************************************************************)
EXTENDS Integers, Sequences, FiniteSets, TLC

\* How many calls (run() or ensure()) one caller makes, one after the other.
MaxCalls == 2

\* How many calls each of two concurrent callers makes.
PairCalls == 1

Procs == {"p1", "p2"}

\* EngineName's two literals, and a value outside them (run() has an else branch for it).
Engines == {"sadtalker", "wav2lip", "other"}

\* Files that may appear directly in a scratch directory.
FileNames == {"a.mp4", "result.mp4", "a.txt"}

\* The characters of a file name, as str/Path comparison sees them.
Codes(n) ==
    CASE n = "a.mp4" -> <<97, 46, 109, 112, 52>>
      [] n = "result.mp4" -> <<114, 101, 115, 117, 108, 116, 46, 109, 112, 52>>
      [] n = "a.txt" -> <<97, 46, 116, 120, 116>>

\* s < t for the character sequences of two names (Python's str ordering).
LexLess(s, t) ==
    \E i \in 1..Len(t) :
        /\ \A j \in 1..(i - 1) : j <= Len(s) /\ s[j] = t[j]
        /\ (i > Len(s) \/ s[i] < t[i])

\* Path.glob("*.mp4") on one name: the name ends in ".mp4".
GlobMp4(n) ==
    LET c == Codes(n)
    IN  Len(c) >= 4 /\ SubSeq(c, Len(c) - 3, Len(c)) = <<46, 109, 112, 52>>

RECURSIVE SortNames(_)
\* sorted(...) of a set of names.
SortNames(S) ==
    IF S = {} THEN <<>>
    ELSE LET m == CHOOSE x \in S : \A y \in S \ {x} : LexLess(Codes(x), Codes(y))
         IN  <<m>> \o SortNames(S \ {m})

\* The output paths of the runs, all in one directory: out.mp4 for the first
\* caller, out.mov or clip.mp4 for the second.
OutputPaths ==
    {[stem |-> "out", ext |-> "mp4"], [stem |-> "out", ext |-> "mov"],
     [stem |-> "clip", ext |-> "mp4"]}

OutputChoices(p) ==
    IF p = "p1" THEN {[stem |-> "out", ext |-> "mp4"]}
    ELSE OutputPaths \ {[stem |-> "out", ext |-> "mp4"]}

\* temp_output_dir = output_path.parent / f"{output_path.stem}_{self.engine}"
TempOutputDir(out, engine) == <<out.stem, engine>>

ScratchDirs == {TempOutputDir(o, e) : o \in OutputPaths, e \in Engines}

NoDir == [exists |-> FALSE, files |-> <<>>]
EmptyDir == [exists |-> TRUE, files |-> <<>>]
NoFile == [name |-> "none", by |-> "none", up |-> FALSE]
NoTemp == [name |-> "none", by |-> "none"]
NoOut == [stem |-> "none", ext |-> "none"]
NoArgs == [src |-> "none", dst |-> NoOut]

\* The orders in which a backend process may write files into its result directory.
WriteOrders ==
    {w \in UNION {[1..n -> FileNames] : n \in 0..Cardinality(FileNames)} :
        \A i, j \in DOMAIN w : i # j => w[i] # w[j]}

\* A directory listing keeps its files in the order they were last written.
NamesIn(files) == {files[i].name : i \in DOMAIN files}

RemoveFile(files, n) == SelectSeq(files, LAMBDA f : f.name # n)

WriteFile(files, n, who) == Append(RemoveFile(files, n), [name |-> n, by |-> who])

RECURSIVE WriteAll(_, _, _)
WriteAll(files, w, who) ==
    IF w = <<>> THEN files
    ELSE WriteAll(WriteFile(files, Head(w), who), Tail(w), who)

FileBy(files, n) == (CHOOSE i \in DOMAIN files : files[i].name = n)

AuthorOf(files, n) == files[FileBy(files, n)].by

\* Event e is in the log l; how many times it is.
Has(l, e) == \E i \in DOMAIN l : l[i] = e

Count(l, e) == Cardinality({i \in DOMAIN l : l[i] = e})

VARIABLES
    parentDir,   \* output_path.parent exists
    outputs,     \* output path -> the file there (NoFile: none)
    scratch,     \* scratch directory -> [exists, files]
    stCache,     \* SadTalkerResources.root_dir on disk
    w2lCache,    \* Wav2LipResources.root_dir on disk
    pc,          \* where each caller's current call stands
    cfg,         \* the caller's pipeline, its output path, and the kind of the current call
    exc,         \* the exception raised in the current call
    result,      \* what the caller received from the current call
    tempOutput,  \* temp_output of run(): the selected file
    ffmpegArgs,  \* src and dst of the ffmpeg command of the current call
    log,         \* what the current call has done so far, in order
    prev,        \* the caller's previous call and how it ended
    calls,       \* calls made so far
    quota,       \* calls each caller makes
    settings,    \* wav2lip_settings of the pipeline
    environ,     \* os.environ of the parent process
    child        \* the inference child process of the current call: command, env, cwd

\* The pipeline's Wav2LipSettings, the parent's environment, the child processes.
invokeVars == <<settings, environ, child>>

vars == <<parentDir, outputs, scratch, stCache, w2lCache, pc, cfg, exc, result,
          tempOutput, ffmpegArgs, log, prev, calls, quota, invokeVars>>

fsVars == <<parentDir, outputs, scratch, stCache, w2lCache>>

NoExc == [type |-> "none", origin |-> "none"]
NoResult == [kind |-> "none", value |-> NoOut, exc |-> NoExc]
NoCfg == [kind |-> "none", engine |-> "none", upscale |-> FALSE, keep |-> FALSE,
          out |-> NoOut]
NoPrev == [kind |-> "none", ok |-> FALSE, exc |-> NoExc]

(***************************************************************************)
(* The inference invocation: settings, command line, environment           *)
(***************************************************************************)
\* str() of the int values that occur.
StrInt(n) ==
    CASE n = 0 -> "0"
      [] n = 10 -> "10"
      [] n = 16 -> "16"
      [] n = 25 -> "25"
      [] n = 100 -> "100"
      [] n = 512 -> "512"

\* str() of a float, given in tenths: str(0.5) = "0.5", str(1.0) = "1.0".
StrFloat(t) ==
    CASE t = 0 -> "0.0"
      [] t = 5 -> "0.5"
      [] t = 10 -> "1.0"
      [] t = 20 -> "2.0"

\* *(str(v) for v in values)
StrAll(values) == [i \in DOMAIN values |-> StrInt(values[i])]

\* Wav2LipSettings. An Optional field is <<>> for None and <<v>> for the value v;
\* crop is <<>> for None or the four values; resize_factor is in tenths.
Wav2LipSettingsValues ==
    [pads : {<<0, 10, 0, 0>>, <<0, 0, 0, 0>>},
     static : BOOLEAN,
     nosmooth : BOOLEAN,
     wav2lip_batch_size : {<<>>, <<0>>, <<16>>},
     face_det_batch_size : {<<>>, <<0>>, <<16>>},
     resize_factor : {0, 5, 10, 20},
     crop : {<<>>, <<0, 0, 100, 100>>}]

\* Wav2LipSettings(): the field defaults.
DefaultWav2LipSettings ==
    [pads |-> <<0, 10, 0, 0>>, static |-> TRUE, nosmooth |-> FALSE,
     wav2lip_batch_size |-> <<>>, face_det_batch_size |-> <<>>,
     resize_factor |-> 10, crop |-> <<>>]

\* Python's truth value of an Optional[int]: None and 0 are false.
TruthyInt(opt) == opt # <<>> /\ opt[1] # 0

\* The paths the resource bundles expose.
StRepoPath == "sadtalker/repo"
StCheckpointsPath == "sadtalker/repo/checkpoints"
StInferencePy == "sadtalker/repo/inference.py"
W2lRepoPath == "wav2lip/repo"
W2lInferencePy == "wav2lip/repo/inference.py"
W2lCheckpoint == "wav2lip/checkpoints/wav2lip.pth"
W2lFaceDetector == "wav2lip/checkpoints/s3fd.pth"

\* command of _run_wav2lip for settings s; fps is the field default.
Wav2LipCommand(s) ==
    <<"python", W2lInferencePy, "--checkpoint_path", W2lCheckpoint, "--face", "image",
      "--audio", "audio", "--outfile", "result.mp4", "--fps", StrInt(25), "--pads">>
    \o StrAll(s.pads)
    \o (IF s.static THEN <<"--static">> ELSE <<>>)
    \o (IF s.nosmooth THEN <<"--nosmooth">> ELSE <<>>)
    \o (IF TruthyInt(s.wav2lip_batch_size)
        THEN <<"--wav2lip_batch_size", StrInt(s.wav2lip_batch_size[1])>> ELSE <<>>)
    \o (IF TruthyInt(s.face_det_batch_size)
        THEN <<"--face_det_batch_size", StrInt(s.face_det_batch_size[1])>> ELSE <<>>)
    \o (IF s.resize_factor # 0 /\ s.resize_factor # 10
        THEN <<"--resize_factor", StrFloat(s.resize_factor)>> ELSE <<>>)
    \o (IF s.crop # <<>> THEN <<"--crop">> \o StrAll(s.crop) ELSE <<>>)

\* command of _run_sadtalker with SadTalkerSettings() and the field defaults of
\* the pipeline.
SadTalkerCommand ==
    <<"python", StInferencePy, "--driven_audio", "audio", "--source_image", "image",
      "--checkpoint_dir", StCheckpointsPath, "--result_dir", "destination",
      "--preprocess", "full", "--expression_scale", StrFloat(10), "--size", StrInt(512),
      "--fps", StrInt(25), "--still">>

\* The variables the invokers set in the child's environment, and what the
\* parent may hold for each ("unset": the variable is not defined).
EnvNames == {"PYTHONPATH", "WAV2LIP_CHECKPOINT_PATH", "S3FD_PATH"}

EnvValues == {"unset", "/site"}

EmptyEnviron == [k \in EnvNames |-> "unset"]

\* env.setdefault(k, v)
SetDefault(env, k, v) == IF env[k] = "unset" THEN [env EXCEPT ![k] = v] ELSE env

\* env of _run_sadtalker: os.environ.copy(), then setdefault.
SadTalkerEnv(parent) == SetDefault(parent, "PYTHONPATH", StRepoPath)

\* env of _run_wav2lip: os.environ.copy(), then three setdefaults.
Wav2LipEnv(parent) ==
    SetDefault(SetDefault(SetDefault(parent, "PYTHONPATH", W2lRepoPath),
                          "WAV2LIP_CHECKPOINT_PATH", W2lCheckpoint),
               "S3FD_PATH", W2lFaceDetector)

NoChild == [command |-> <<>>, env |-> EmptyEnviron, cwd |-> "none"]

\* The cache roots before anything was provisioned.
FreshStCache == [root |-> FALSE, repo |-> FALSE, script |-> FALSE, ckpts |-> FALSE]

FreshW2lCache ==
    [root |-> FALSE, repo |-> FALSE, ckptDir |-> FALSE, wav |-> "absent",
     s3fd |-> "absent", mirror |-> "absent"]

FreshFs ==
    /\ parentDir = FALSE
    /\ outputs = [o \in OutputPaths |-> NoFile]
    /\ scratch = [d \in ScratchDirs |-> NoDir]
    /\ stCache = FreshStCache
    /\ w2lCache = FreshW2lCache

IdleProcs ==
    /\ pc = [p \in Procs |-> "idle"]
    /\ exc = [p \in Procs |-> NoExc]
    /\ result = [p \in Procs |-> NoResult]
    /\ tempOutput = [p \in Procs |-> NoTemp]
    /\ ffmpegArgs = [p \in Procs |-> NoArgs]
    /\ log = [p \in Procs |-> <<>>]
    /\ prev = [p \in Procs |-> NoPrev]
    /\ calls = [p \in Procs |-> 0]
    /\ child = [p \in Procs |-> NoChild]

\* The pipelines a caller may build: LipSyncPipeline(engine=..., upscale_to_1080p=...,
\* keep_intermediate=...), used with one output path.
Pipelines(p) ==
    [kind : {"none"}, engine : Engines, upscale : BOOLEAN, keep : BOOLEAN,
     out : OutputChoices(p)]

\* A machine with nothing provisioned, on which an earlier process may have left
\* directory dir with a video in it beside the output path.
LeftoverFs(dir, left) ==
    /\ parentDir = left
    /\ outputs = [o \in OutputPaths |-> NoFile]
    /\ scratch = [d \in ScratchDirs |->
                     IF left /\ d = dir
                     THEN [exists |-> TRUE, files |-> <<[name |-> "a.mp4", by |-> "old"]>>]
                     ELSE NoDir]
    /\ stCache = FreshStCache
    /\ w2lCache = FreshW2lCache

\* One caller, who has built a pipeline with the default Wav2LipSettings, in a
\* process whose environment defines none of EnvNames; the machine is fresh, or
\* holds a directory of the name of the pipeline's scratch directory.
Init ==
    /\ IdleProcs
    /\ settings = DefaultWav2LipSettings
    /\ environ = EmptyEnviron
    /\ quota = [p \in Procs |-> IF p = "p1" THEN MaxCalls ELSE 0]
    /\ \E c \in Pipelines("p1"), left \in BOOLEAN :
          /\ cfg = [p \in Procs |-> IF p = "p1" THEN c ELSE NoCfg]
          /\ LeftoverFs(TempOutputDir(c.out, c.engine), left)

(***************************************************************************)
(* Control: stepping, raising, returning, and the caller                   *)
(***************************************************************************)
MyScratch(p) == TempOutputDir(cfg[p].out, cfg[p].engine)

\* The call goes on to block l, having done events.
Step(p, l, events) ==
    /\ pc' = [pc EXCEPT ![p] = l]
    /\ log' = [log EXCEPT ![p] = @ \o events]
    /\ UNCHANGED <<exc, result>>

\* raise, after events: the exception starts to unwind the call's frames.
Raise(p, type, origin, events) ==
    /\ pc' = [pc EXCEPT ![p] = "unwind"]
    /\ exc' = [exc EXCEPT ![p] = [type |-> type, origin |-> origin]]
    /\ log' = [log EXCEPT ![p] = @ \o events \o <<"raise">>]
    /\ UNCHANGED result

\* ensure() falls off its end: back in _run_sadtalker/_run_wav2lip (block next), or
\* at the caller when the caller called ensure() itself.
EnsureReturns(p, next, events) ==
    /\ log' = [log EXCEPT ![p] = @ \o events \o <<"ResourcesEnsured">>]
    /\ UNCHANGED exc
    /\ IF cfg[p].kind = "ensure"
       THEN /\ pc' = [pc EXCEPT ![p] = "done"]
            /\ result' = [result EXCEPT ![p] = [kind |-> "returned", value |-> NoOut,
                                                 exc |-> NoExc]]
       ELSE /\ pc' = [pc EXCEPT ![p] = next]
            /\ UNCHANGED result

\* At the start of a call the files this caller's earlier backend processes wrote
\* become old files.
Age(who, by) == IF by = who THEN "old" ELSE by

AgeFiles(files, who) == [i \in DOMAIN files |-> [files[i] EXCEPT !.by = Age(who, @)]]

\* The calls a caller can make: run() on a pipeline, ensure() on a resource bundle.
CallKinds == {"run", "ensure"}

\* The one call the command-line tool makes.
RunCalls == {"run"}

\* The caller makes a call of one of kinds: run() on its pipeline, or ensure() on
\* the resource bundle of the pipeline's engine.
CallOf(p, kinds) ==
    /\ pc[p] \in {"idle", "done", "failed"}
    /\ calls[p] < quota[p]
    /\ \E kind \in kinds :
          /\ kind = "ensure" => cfg[p].engine \in {"sadtalker", "wav2lip"}
          /\ cfg' = [cfg EXCEPT ![p].kind = kind]
          /\ pc' = [pc EXCEPT ![p] =
                       IF kind = "run" THEN "run_init"
                       ELSE IF cfg[p].engine = "sadtalker" THEN "st_ensure"
                       ELSE "w2l_ensure"]
    /\ prev' = [prev EXCEPT ![p] = [kind |-> cfg[p].kind, ok |-> pc[p] = "done",
                                    exc |-> result[p].exc]]
    /\ calls' = [calls EXCEPT ![p] = @ + 1]
    /\ exc' = [exc EXCEPT ![p] = NoExc]
    /\ result' = [result EXCEPT ![p] = NoResult]
    /\ tempOutput' = [tempOutput EXCEPT ![p] = NoTemp]
    /\ ffmpegArgs' = [ffmpegArgs EXCEPT ![p] = NoArgs]
    /\ log' = [log EXCEPT ![p] = <<>>]
    /\ scratch' = [d \in ScratchDirs |-> [scratch[d] EXCEPT !.files = AgeFiles(@, p)]]
    /\ outputs' = [o \in OutputPaths |-> [outputs[o] EXCEPT !.by = Age(p, @)]]
    /\ child' = [child EXCEPT ![p] = NoChild]
    /\ UNCHANGED <<parentDir, stCache, w2lCache, quota, settings, environ>>

Call(p) == CallOf(p, CallKinds)

\* A run() that cleans up on its way out, as a finally block would, and hands the
\* caller an error of its own.
PropagateCleansUp(p) ==
    /\ pc[p] = "unwind"
    /\ pc' = [pc EXCEPT ![p] = "failed"]
    /\ scratch' = [scratch EXCEPT ![MyScratch(p)] = IF cfg[p].keep THEN @ ELSE NoDir]
    /\ result' = [result EXCEPT ![p] = [kind |-> "raised", value |-> NoOut,
                                         exc |-> [type |-> "RuntimeError",
                                                  origin |-> exc[p].origin]]]
    /\ UNCHANGED <<parentDir, outputs, stCache, w2lCache, cfg, exc, tempOutput,
                   ffmpegArgs, log, prev, calls, quota, invokeVars>>

\* run() and ensure() hold no try/except/finally: the exception reaches the caller
\* as it was raised, and nothing else runs.
Propagate(p) ==
    /\ pc[p] = "unwind"
    /\ pc' = [pc EXCEPT ![p] = "failed"]
    /\ result' = [result EXCEPT ![p] = [kind |-> "raised", value |-> NoOut,
                                         exc |-> exc[p]]]
    /\ UNCHANGED <<fsVars, cfg, exc, tempOutput, ffmpegArgs, log, prev, calls, quota, invokeVars>>

(***************************************************************************)
(* LipSyncPipeline.run: the scratch workspace and the dispatch             *)
(***************************************************************************)
\* An init step that never removes the scratch directory.
PrepareScratchNoRmtree(dir, keep) == [dir EXCEPT !.exists = TRUE]

\* shutil.rmtree(temp_output_dir) when not keep_intermediate and it exists, then
\* temp_output_dir.mkdir(parents=True, exist_ok=True).
PrepareScratch(dir, keep) ==
    IF ~keep /\ dir.exists THEN EmptyDir ELSE [dir EXCEPT !.exists = TRUE]

\* A run() that rejects an unsupported engine before touching the file system.
RunInitValidatesEngine(p) ==
    /\ pc[p] = "run_init"
    /\ IF cfg[p].engine \in {"sadtalker", "wav2lip"}
       THEN /\ parentDir' = TRUE
            /\ scratch' = [scratch EXCEPT ![MyScratch(p)] = PrepareScratch(@, cfg[p].keep)]
            /\ Step(p, "dispatch", <<"Init">>)
       ELSE /\ Raise(p, "ValueError", "engine", <<>>)
            /\ UNCHANGED <<parentDir, scratch>>
    /\ UNCHANGED <<outputs, stCache, w2lCache, cfg, tempOutput, ffmpegArgs, prev, calls,
                   quota, invokeVars>>

RunInit(p) ==
    /\ pc[p] = "run_init"
    /\ parentDir' = TRUE
    /\ scratch' = [scratch EXCEPT ![MyScratch(p)] = PrepareScratch(@, cfg[p].keep)]
    /\ Step(p, "dispatch", <<"Init">>)
    /\ UNCHANGED <<outputs, stCache, w2lCache, cfg, tempOutput, ffmpegArgs, prev, calls,
                   quota, invokeVars>>

\* An invoker that starts the inference without calling ensure().
DispatchSkipsEnsure(engine) ==
    IF engine = "sadtalker" THEN "st_build"
    ELSE IF engine = "wav2lip" THEN "w2l_build"
    ELSE "unsupported"

\* A run() that takes the other backend's invoker.
DispatchOtherBackend(engine) ==
    IF engine = "sadtalker" THEN "w2l_ensure"
    ELSE IF engine = "wav2lip" THEN "st_ensure"
    ELSE "unsupported"

\* Where run() goes for an engine: into one of the two invokers, whose first
\* statement calls ensure(), or to the else branch.
DispatchTarget(engine) ==
    IF engine = "sadtalker" THEN "st_ensure"
    ELSE IF engine = "wav2lip" THEN "w2l_ensure"
    ELSE "unsupported"

Dispatch(p) ==
    /\ pc[p] = "dispatch"
    /\ IF DispatchTarget(cfg[p].engine) = "unsupported"
       THEN Raise(p, "ValueError", "engine", <<>>)
       ELSE Step(p, DispatchTarget(cfg[p].engine), <<>>)
    /\ UNCHANGED <<fsVars, cfg, tempOutput, ffmpegArgs, prev, calls, quota, invokeVars>>

(***************************************************************************)
(* SadTalkerResources                                                      *)
(***************************************************************************)
\* An ensure() that waits while another caller is provisioning the cache root.
StEnsureLocked(p) ==
    /\ pc[p] = "st_ensure"
    /\ \A q \in Procs \ {p} :
          pc[q] \notin {"st_git_clone", "st_check_ckpt", "st_download_checkpoints",
                        "st_helper"}
    /\ stCache' = [stCache EXCEPT !.root = TRUE]
    /\ IF ~stCache.repo
       THEN Step(p, "st_git_clone", <<"EnsureStart", "clone">>)
       ELSE Step(p, "st_check_ckpt", <<"EnsureStart">>)
    /\ UNCHANGED <<parentDir, outputs, scratch, w2lCache, cfg, tempOutput, ffmpegArgs,
                   prev, calls, quota, invokeVars>>

\* ensure(): root_dir.mkdir, then the clone unless repo_path() exists.
StEnsure(p) ==
    /\ pc[p] = "st_ensure"
    /\ stCache' = [stCache EXCEPT !.root = TRUE]
    /\ IF ~stCache.repo
       THEN Step(p, "st_git_clone", <<"EnsureStart", "clone">>)
       ELSE Step(p, "st_check_ckpt", <<"EnsureStart">>)
    /\ UNCHANGED <<parentDir, outputs, scratch, w2lCache, cfg, tempOutput, ffmpegArgs,
                   prev, calls, quota, invokeVars>>

\* A clone that is started a second time when the first exits non-zero.
StGitCloneRetries(p) ==
    /\ pc[p] = "st_git_clone"
    /\ \E exit0 \in BOOLEAN, script \in BOOLEAN, ckpts \in BOOLEAN :
          IF exit0
          THEN /\ stCache' = [stCache EXCEPT !.repo = TRUE, !.script = script,
                                             !.ckpts = ckpts]
               /\ Step(p, "st_check_ckpt", <<>>)
          ELSE /\ ~script /\ ~ckpts
               /\ UNCHANGED stCache
               /\ IF Count(log[p], "clone") < 2
                  THEN Step(p, "st_git_clone", <<"clone">>)
                  ELSE Raise(p, "CalledProcessError", "git_clone", <<>>)
    /\ UNCHANGED <<parentDir, outputs, scratch, w2lCache, cfg, tempOutput, ffmpegArgs,
                   prev, calls, quota, invokeVars>>

\* _git_clone(): subprocess.run(["git", "clone", ...], check=True) comes back. A
\* clone that exits 0 leaves the tree in repo_path(); the tree may or may not hold
\* scripts/download_models.py and entries under checkpoints/.
StGitClone(p) ==
    /\ pc[p] = "st_git_clone"
    /\ \E exit0 \in BOOLEAN, script \in BOOLEAN, ckpts \in BOOLEAN :
          IF exit0
          THEN /\ stCache' = [stCache EXCEPT !.repo = TRUE, !.script = script,
                                             !.ckpts = ckpts]
               /\ Step(p, "st_check_ckpt", <<>>)
          ELSE /\ ~script /\ ~ckpts
               /\ UNCHANGED stCache
               /\ Raise(p, "CalledProcessError", "git_clone", <<>>)
    /\ UNCHANGED <<parentDir, outputs, scratch, w2lCache, cfg, tempOutput, ffmpegArgs,
                   prev, calls, quota, invokeVars>>

\* An ensure() that downloads the checkpoints every time.
StCheckCkptAlways(p) ==
    /\ pc[p] = "st_check_ckpt"
    /\ Step(p, "st_download_checkpoints", <<>>)
    /\ UNCHANGED <<fsVars, cfg, tempOutput, ffmpegArgs, prev, calls, quota, invokeVars>>

\* ensure(): the download unless any(checkpoints_path().rglob("*")).
StCheckCkpt(p) ==
    /\ pc[p] = "st_check_ckpt"
    /\ IF ~stCache.ckpts
       THEN Step(p, "st_download_checkpoints", <<>>)
       ELSE EnsureReturns(p, "st_build", <<>>)
    /\ UNCHANGED <<fsVars, cfg, tempOutput, ffmpegArgs, prev, calls, quota, invokeVars>>

\* _download_checkpoints(), up to the start of the helper.
StDownloadCheckpoints(p) ==
    /\ pc[p] = "st_download_checkpoints"
    /\ IF ~stCache.script
       THEN Raise(p, "FileNotFoundError", "download_script", <<>>)
       ELSE Step(p, "st_helper", <<"helper">>)
    /\ UNCHANGED <<fsVars, cfg, tempOutput, ffmpegArgs, prev, calls, quota, invokeVars>>

\* The helper comes back: subprocess.run(command, cwd=repo, check=True). It may
\* have put entries under checkpoints/ or not, whatever its exit status.
StHelper(p) ==
    /\ pc[p] = "st_helper"
    /\ \E exit0 \in BOOLEAN, wrote \in BOOLEAN :
          /\ stCache' = [stCache EXCEPT !.ckpts = @ \/ wrote]
          /\ IF exit0
             THEN EnsureReturns(p, "st_build", <<>>)
             ELSE Raise(p, "CalledProcessError", "download_helper", <<>>)
    /\ UNCHANGED <<parentDir, outputs, scratch, w2lCache, cfg, tempOutput, ffmpegArgs,
                   prev, calls, quota, invokeVars>>

(***************************************************************************)
(* Wav2LipResources                                                        *)
(***************************************************************************)
\* Path.exists() of a checkpoint file: any file counts, whatever its content.
FileExists(content) == content # "absent"

\* ensure(): root_dir.mkdir, then the clone unless repo_path() exists.
W2lEnsure(p) ==
    /\ pc[p] = "w2l_ensure"
    /\ w2lCache' = [w2lCache EXCEPT !.root = TRUE]
    /\ IF ~w2lCache.repo
       THEN Step(p, "w2l_git_clone", <<"EnsureStart", "clone">>)
       ELSE Step(p, "w2l_check_wav", <<"EnsureStart">>)
    /\ UNCHANGED <<parentDir, outputs, scratch, stCache, cfg, tempOutput, ffmpegArgs,
                   prev, calls, quota, invokeVars>>

\* _git_clone(): subprocess.run(["git", "clone", ...], check=True) comes back.
W2lGitClone(p) ==
    /\ pc[p] = "w2l_git_clone"
    /\ \E exit0 \in BOOLEAN :
          IF exit0
          THEN /\ w2lCache' = [w2lCache EXCEPT !.repo = TRUE]
               /\ Step(p, "w2l_check_wav", <<>>)
          ELSE /\ UNCHANGED w2lCache
               /\ Raise(p, "CalledProcessError", "git_clone", <<>>)
    /\ UNCHANGED <<parentDir, outputs, scratch, stCache, cfg, tempOutput, ffmpegArgs,
                   prev, calls, quota, invokeVars>>

\* ensure(): checkpoints_path().mkdir, then the download unless
\* wav2lip_checkpoint() exists.
W2lCheckWav(p) ==
    /\ pc[p] = "w2l_check_wav"
    /\ w2lCache' = [w2lCache EXCEPT !.ckptDir = TRUE]
    /\ IF ~FileExists(w2lCache.wav)
       THEN Step(p, "w2l_download_wav", <<"dl_wav">>)
       ELSE Step(p, "w2l_check_s3fd", <<>>)
    /\ UNCHANGED <<parentDir, outputs, scratch, stCache, cfg, tempOutput, ffmpegArgs,
                   prev, calls, quota, invokeVars>>

\* What _download() can do: gdown is not importable (RuntimeError); gdown.download
\* raises; it writes the published file, or a file with other content; or it
\* reports its failure on stderr and returns None, leaving no file.
DownloadOutcomes == {"no_gdown", "raises", "good", "corrupt", "nothing"}

\* The file at the destination after _download() with outcome o.
Downloaded(before, o) == IF o \in {"good", "corrupt"} THEN o ELSE before

\* The exception _download() raises with outcome o ("none": it returns).
DownloadRaises(o) ==
    IF o = "no_gdown" THEN "RuntimeError"
    ELSE IF o = "raises" THEN "GdownError"
    ELSE "none"

\* _download(WAV2LIP_CHECKPOINT_URL, wav2lip_checkpoint()) comes back.
W2lDownloadWav(p) ==
    /\ pc[p] = "w2l_download_wav"
    /\ \E o \in DownloadOutcomes :
          /\ w2lCache' = [w2lCache EXCEPT !.wav = Downloaded(@, o)]
          /\ IF DownloadRaises(o) # "none"
             THEN Raise(p, DownloadRaises(o), "download", <<>>)
             ELSE Step(p, "w2l_check_s3fd", <<>>)
    /\ UNCHANGED <<parentDir, outputs, scratch, stCache, cfg, tempOutput, ffmpegArgs,
                   prev, calls, quota, invokeVars>>

\* ensure(): the download unless face_detector_checkpoint() exists.
W2lCheckS3fd(p) ==
    /\ pc[p] = "w2l_check_s3fd"
    /\ IF ~FileExists(w2lCache.s3fd)
       THEN Step(p, "w2l_download_s3fd", <<"dl_s3fd">>)
       ELSE Step(p, "w2l_sync", <<>>)
    /\ UNCHANGED <<fsVars, cfg, tempOutput, ffmpegArgs, prev, calls, quota, invokeVars>>

\* _download(S3FD_CHECKPOINT_URL, face_detector_checkpoint()) comes back; the
\* import of gdown cannot fail here when it succeeded for the first download.
W2lDownloadS3fd(p) ==
    /\ pc[p] = "w2l_download_s3fd"
    /\ \E o \in DownloadOutcomes :
          /\ o = "no_gdown" => ~Has(log[p], "dl_wav")
          /\ w2lCache' = [w2lCache EXCEPT !.s3fd = Downloaded(@, o)]
          /\ IF DownloadRaises(o) # "none"
             THEN Raise(p, DownloadRaises(o), "download", <<>>)
             ELSE Step(p, "w2l_sync", <<>>)
    /\ UNCHANGED <<parentDir, outputs, scratch, stCache, cfg, tempOutput, ffmpegArgs,
                   prev, calls, quota, invokeVars>>

\* An ensure() that returns without mirroring the face detector.
W2lSyncNoCopy(p) ==
    /\ pc[p] = "w2l_sync"
    /\ EnsureReturns(p, "w2l_build", <<>>)
    /\ UNCHANGED <<fsVars, cfg, tempOutput, ffmpegArgs, prev, calls, quota, invokeVars>>

\* _sync_detector_into_repo(): repo_detector.parent.mkdir, then the copy unless the
\* mirrored file exists; shutil.copy2 of a missing source raises
\* FileNotFoundError. Then ensure() returns.
W2lSync(p) ==
    /\ pc[p] = "w2l_sync"
    /\ IF FileExists(w2lCache.mirror)
       THEN /\ UNCHANGED w2lCache
            /\ EnsureReturns(p, "w2l_build", <<>>)
       ELSE IF FileExists(w2lCache.s3fd)
       THEN /\ w2lCache' = [w2lCache EXCEPT !.repo = TRUE, !.mirror = w2lCache.s3fd]
            /\ EnsureReturns(p, "w2l_build", <<"copy">>)
       ELSE /\ w2lCache' = [w2lCache EXCEPT !.repo = TRUE]
            /\ Raise(p, "FileNotFoundError", "copy_detector", <<"copy">>)
    /\ UNCHANGED <<parentDir, outputs, scratch, stCache, cfg, tempOutput, ffmpegArgs,
                   prev, calls, quota, invokeVars>>

(***************************************************************************)
(* The backend invokers                                                    *)
(***************************************************************************)
\* What the inference process leaves in its result directory: it writes the
\* files of w, in that order (nothing when the directory is gone).
AfterInference(dir, w, who) ==
    IF dir.exists THEN [dir EXCEPT !.files = WriteAll(@, w, who)] ELSE dir

\* The file named n in a directory, as run() holds it in temp_output.
Selected(dir, n) == [name |-> n, by |-> AuthorOf(dir.files, n)]

\* _run_sadtalker(): after ensure(), the command and environment are built and
\* the inference process is started.
StBuild(p) ==
    /\ pc[p] = "st_build"
    /\ child' = [child EXCEPT ![p] = [command |-> SadTalkerCommand,
                                      env |-> SadTalkerEnv(environ),
                                      cwd |-> StRepoPath]]
    /\ Step(p, "st_inference", <<"infer">>)
    /\ UNCHANGED <<fsVars, cfg, tempOutput, ffmpegArgs, prev, calls, quota, settings,
                   environ>>

\* subprocess.run(command, cwd=repo, env=env, check=True) comes back, the process
\* having written its files in one of orders.
StInferenceOf(p, orders) ==
    /\ pc[p] = "st_inference"
    /\ \E exit0 \in BOOLEAN, w \in orders :
          /\ scratch' = [scratch EXCEPT ![MyScratch(p)] = AfterInference(@, w, p)]
          /\ IF exit0
             THEN Step(p, "st_select", <<>>)
             ELSE Raise(p, "CalledProcessError", "inference", <<>>)
    /\ UNCHANGED <<parentDir, outputs, stCache, w2lCache, cfg, tempOutput, ffmpegArgs,
                   prev, calls, quota, invokeVars>>

StInference(p) == StInferenceOf(p, WriteOrders)

\* A selection that globs "*" instead of "*.mp4".
CandidatesAnyFile(dir) == SortNames(NamesIn(dir.files))

\* candidates = sorted(directory.glob("*.mp4"))
Candidates(dir) == SortNames({n \in NamesIn(dir.files) : GlobMp4(n)})

\* _select_generated_video(): FileNotFoundError without candidates, a warning with
\* several, candidates[0] returned.
StSelect(p) ==
    /\ pc[p] = "st_select"
    /\ LET candidates == Candidates(scratch[MyScratch(p)])
       IN  IF candidates = <<>>
           THEN /\ Raise(p, "FileNotFoundError", "select_video", <<>>)
                /\ UNCHANGED tempOutput
           ELSE /\ tempOutput' = [tempOutput EXCEPT ![p] =
                                     Selected(scratch[MyScratch(p)], candidates[1])]
                /\ Step(p, "finish", IF Len(candidates) > 1
                                     THEN <<"warning", "Inferred">>
                                     ELSE <<"Inferred">>)
    /\ UNCHANGED <<fsVars, cfg, ffmpegArgs, prev, calls, quota, invokeVars>>

\* _run_wav2lip(): after ensure(), output_file = destination / "result.mp4", the
\* command and environment are built and the inference process is started.
W2lBuild(p) ==
    /\ pc[p] = "w2l_build"
    /\ child' = [child EXCEPT ![p] = [command |-> Wav2LipCommand(settings),
                                      env |-> Wav2LipEnv(environ),
                                      cwd |-> W2lRepoPath]]
    /\ Step(p, "w2l_inference", <<"infer">>)
    /\ UNCHANGED <<fsVars, cfg, tempOutput, ffmpegArgs, prev, calls, quota, settings,
                   environ>>

\* subprocess.run(command, cwd=repo, env=env, check=True) comes back, the process
\* having written its files in one of orders.
W2lInferenceOf(p, orders) ==
    /\ pc[p] = "w2l_inference"
    /\ \E exit0 \in BOOLEAN, w \in orders :
          /\ scratch' = [scratch EXCEPT ![MyScratch(p)] = AfterInference(@, w, p)]
          /\ IF exit0
             THEN Step(p, "w2l_check_output", <<>>)
             ELSE Raise(p, "CalledProcessError", "inference", <<>>)
    /\ UNCHANGED <<parentDir, outputs, stCache, w2lCache, cfg, tempOutput, ffmpegArgs,
                   prev, calls, quota, invokeVars>>

W2lInference(p) == W2lInferenceOf(p, WriteOrders)

\* if not output_file.exists(): raise FileNotFoundError; return output_file
W2lCheckOutput(p) ==
    /\ pc[p] = "w2l_check_output"
    /\ IF "result.mp4" \notin NamesIn(scratch[MyScratch(p)].files)
       THEN /\ Raise(p, "FileNotFoundError", "wav2lip_output", <<>>)
            /\ UNCHANGED tempOutput
       ELSE /\ tempOutput' = [tempOutput EXCEPT ![p] =
                                 Selected(scratch[MyScratch(p)], "result.mp4")]
            /\ Step(p, "finish", <<"Inferred">>)
    /\ UNCHANGED <<fsVars, cfg, ffmpegArgs, prev, calls, quota, invokeVars>>

(***************************************************************************)
(* LipSyncPipeline.run: upscale or move, cleanup, return                   *)
(***************************************************************************)
\* The file a successful ffmpeg or shutil.move puts at the output path: the
\* content of the file named n, re-encoded by ffmpeg (up) or as it was.
Produced(dir, n, up) == [name |-> n, by |-> AuthorOf(dir.files, n), up |-> up]

\* A run() that copies temp_output to the output path and leaves it in place.
FinishCopies(p) ==
    /\ pc[p] = "finish"
    /\ IF cfg[p].upscale
       THEN /\ ffmpegArgs' = [ffmpegArgs EXCEPT ![p] = [src |-> tempOutput[p].name,
                                                        dst |-> cfg[p].out]]
            /\ Step(p, "ffmpeg", <<"upscale">>)
            /\ UNCHANGED <<outputs, scratch>>
       ELSE \E moved \in BOOLEAN :
               IF moved /\ tempOutput[p].name \in NamesIn(scratch[MyScratch(p)].files)
               THEN /\ outputs' = [outputs EXCEPT ![cfg[p].out] =
                                      Produced(scratch[MyScratch(p)], tempOutput[p].name,
                                               FALSE)]
                    /\ Step(p, "cleanup", <<"move", "Rearchived">>)
                    /\ UNCHANGED <<scratch, ffmpegArgs>>
               ELSE /\ Raise(p, "OSError", "move", <<"move">>)
                    /\ UNCHANGED <<outputs, scratch, ffmpegArgs>>
    /\ UNCHANGED <<parentDir, stCache, w2lCache, cfg, tempOutput, prev, calls, quota, invokeVars>>

\* final_output = output_path; ffmpeg is started when upscale_to_1080p, else
\* shutil.move(temp_output, final_output), which may fail (the source is gone, the
\* destination cannot be written) and then leaves both places as they were.
Finish(p) ==
    /\ pc[p] = "finish"
    /\ IF cfg[p].upscale
       THEN /\ ffmpegArgs' = [ffmpegArgs EXCEPT ![p] = [src |-> tempOutput[p].name,
                                                        dst |-> cfg[p].out]]
            /\ Step(p, "ffmpeg", <<"upscale">>)
            /\ UNCHANGED <<outputs, scratch>>
       ELSE \E moved \in BOOLEAN :
               IF moved /\ tempOutput[p].name \in NamesIn(scratch[MyScratch(p)].files)
               THEN /\ outputs' = [outputs EXCEPT ![cfg[p].out] =
                                      Produced(scratch[MyScratch(p)], tempOutput[p].name,
                                               FALSE)]
                    /\ scratch' = [scratch EXCEPT ![MyScratch(p)].files =
                                      RemoveFile(@, tempOutput[p].name)]
                    /\ Step(p, "cleanup", <<"move", "Rearchived">>)
                    /\ UNCHANGED ffmpegArgs
               ELSE /\ Raise(p, "OSError", "move", <<"move">>)
                    /\ UNCHANGED <<outputs, scratch, ffmpegArgs>>
    /\ UNCHANGED <<parentDir, stCache, w2lCache, cfg, tempOutput, prev, calls, quota, invokeVars>>

\* _upscale_to_1080p(): subprocess.run(["ffmpeg", "-y", "-i", src, ..., dst],
\* check=True) comes back. ffmpeg that exits 0 has read src and written dst; it
\* cannot exit 0 without its input.
Ffmpeg(p) ==
    /\ pc[p] = "ffmpeg"
    /\ \E exit0 \in BOOLEAN :
          IF exit0 /\ ffmpegArgs[p].src \in NamesIn(scratch[MyScratch(p)].files)
          THEN /\ outputs' = [outputs EXCEPT ![ffmpegArgs[p].dst] =
                                 Produced(scratch[MyScratch(p)], ffmpegArgs[p].src, TRUE)]
               /\ Step(p, "cleanup", <<"Upscaled">>)
          ELSE /\ UNCHANGED outputs
               /\ Raise(p, "CalledProcessError", "ffmpeg", <<>>)
    /\ UNCHANGED <<parentDir, scratch, stCache, w2lCache, cfg, tempOutput, ffmpegArgs,
                   prev, calls, quota, invokeVars>>

\* A cleanup that removes the scratch directory whatever keep_intermediate says.
CleanupIgnoresKeep(p) ==
    /\ pc[p] = "cleanup"
    /\ \E removed \in BOOLEAN :
          IF removed
          THEN /\ scratch' = [scratch EXCEPT ![MyScratch(p)] = NoDir]
               /\ Step(p, "return", <<"rmtree", "Cleaned">>)
          ELSE /\ UNCHANGED scratch
               /\ Step(p, "return", <<"rmtree", "rmtree_error", "Cleaned">>)
    /\ UNCHANGED <<parentDir, outputs, stCache, w2lCache, cfg, tempOutput, ffmpegArgs,
                   prev, calls, quota, invokeVars>>

\* if not self.keep_intermediate: shutil.rmtree(temp_output_dir, ignore_errors=True)
\* The removal may fail; the error is ignored and the directory stays.
Cleanup(p) ==
    /\ pc[p] = "cleanup"
    /\ IF ~cfg[p].keep
       THEN \E removed \in BOOLEAN :
               IF removed
               THEN /\ scratch' = [scratch EXCEPT ![MyScratch(p)] = NoDir]
                    /\ Step(p, "return", <<"rmtree", "Cleaned">>)
               ELSE /\ UNCHANGED scratch
                    /\ Step(p, "return", <<"rmtree", "rmtree_error", "Cleaned">>)
       ELSE /\ UNCHANGED scratch
            /\ Step(p, "return", <<"Cleaned">>)
    /\ UNCHANGED <<parentDir, outputs, stCache, w2lCache, cfg, tempOutput, ffmpegArgs,
                   prev, calls, quota, invokeVars>>

\* return final_output
Return(p) ==
    /\ pc[p] = "return"
    /\ pc' = [pc EXCEPT ![p] = "done"]
    /\ log' = [log EXCEPT ![p] = Append(@, "Done")]
    /\ result' = [result EXCEPT ![p] = [kind |-> "returned", value |-> cfg[p].out,
                                         exc |-> NoExc]]
    /\ UNCHANGED <<fsVars, cfg, exc, tempOutput, ffmpegArgs, prev, calls, quota, invokeVars>>

(***************************************************************************)
(* The specification                                                       *)
(***************************************************************************)
Next ==
    \E p \in Procs :
        \/ Call(p)
        \/ Propagate(p)
        \/ RunInit(p)
        \/ Dispatch(p)
        \/ StEnsure(p)
        \/ StGitClone(p)
        \/ StCheckCkpt(p)
        \/ StDownloadCheckpoints(p)
        \/ StHelper(p)
        \/ W2lEnsure(p)
        \/ W2lGitClone(p)
        \/ W2lCheckWav(p)
        \/ W2lDownloadWav(p)
        \/ W2lCheckS3fd(p)
        \/ W2lDownloadS3fd(p)
        \/ W2lSync(p)
        \/ StBuild(p)
        \/ StInference(p)
        \/ StSelect(p)
        \/ W2lBuild(p)
        \/ W2lInference(p)
        \/ W2lCheckOutput(p)
        \/ Finish(p)
        \/ Ffmpeg(p)
        \/ Cleanup(p)
        \/ Return(p)

Spec == Init /\ [][Next]_vars

\* Two concurrent callers of one pipeline with a supported engine, each with its
\* own output path, on a fresh machine.
InitPair ==
    /\ FreshFs
    /\ IdleProcs
    /\ settings = DefaultWav2LipSettings
    /\ environ = EmptyEnviron
    /\ quota = [p \in Procs |-> PairCalls]
    /\ \E c1 \in Pipelines("p1"), c2 \in Pipelines("p2") :
          /\ c1.engine \in {"sadtalker", "wav2lip"}
          /\ c2 = [c1 EXCEPT !.out = c2.out]
          /\ cfg = [p \in Procs |-> IF p = "p1" THEN c1 ELSE c2]

\* What a backend process writes in the runs of two concurrent callers: nothing,
\* or result.mp4.
PairWriteOrders == {<<>>, <<"result.mp4">>}

NextPair ==
    \E p \in Procs :
        \/ CallOf(p, RunCalls)
        \/ Propagate(p)
        \/ RunInit(p)
        \/ Dispatch(p)
        \/ StEnsure(p)
        \/ StGitClone(p)
        \/ StCheckCkpt(p)
        \/ StDownloadCheckpoints(p)
        \/ StHelper(p)
        \/ W2lEnsure(p)
        \/ W2lGitClone(p)
        \/ W2lCheckWav(p)
        \/ W2lDownloadWav(p)
        \/ W2lCheckS3fd(p)
        \/ W2lDownloadS3fd(p)
        \/ W2lSync(p)
        \/ StBuild(p)
        \/ StInferenceOf(p, PairWriteOrders)
        \/ StSelect(p)
        \/ W2lBuild(p)
        \/ W2lInferenceOf(p, PairWriteOrders)
        \/ W2lCheckOutput(p)
        \/ Finish(p)
        \/ Ffmpeg(p)
        \/ Cleanup(p)
        \/ Return(p)

SpecPair == InitPair /\ [][NextPair]_vars

\* The two concurrent runs up to the start of their inference processes: the init
\* step, the dispatch, ensure(), and the building of the command.
NextProvision ==
    \E p \in Procs :
        \/ CallOf(p, RunCalls)
        \/ Propagate(p)
        \/ RunInit(p)
        \/ Dispatch(p)
        \/ StEnsure(p)
        \/ StGitClone(p)
        \/ StCheckCkpt(p)
        \/ StDownloadCheckpoints(p)
        \/ StHelper(p)
        \/ W2lEnsure(p)
        \/ W2lGitClone(p)
        \/ W2lCheckWav(p)
        \/ W2lDownloadWav(p)
        \/ W2lCheckS3fd(p)
        \/ W2lDownloadS3fd(p)
        \/ W2lSync(p)
        \/ StBuild(p)
        \/ W2lBuild(p)

SpecProvision == InitPair /\ [][NextProvision]_vars

\* The cache roots as a complete provisioning leaves them.
ProvisionedStCache == [root |-> TRUE, repo |-> TRUE, script |-> TRUE, ckpts |-> TRUE]

ProvisionedW2lCache ==
    [root |-> TRUE, repo |-> TRUE, ckptDir |-> TRUE, wav |-> "good", s3fd |-> "good",
     mirror |-> "good"]

\* The invokers alone: a run() of the first caller stands right after ensure()
\* returned, on provisioned cache roots, for any Wav2LipSettings of the pipeline
\* and any parent environment.
InitInvoke ==
    /\ parentDir = TRUE
    /\ outputs = [o \in OutputPaths |-> NoFile]
    /\ stCache = ProvisionedStCache
    /\ w2lCache = ProvisionedW2lCache
    /\ \E c \in Pipelines("p1") :
          /\ c.engine \in {"sadtalker", "wav2lip"}
          /\ cfg = [p \in Procs |-> IF p = "p1" THEN [c EXCEPT !.kind = "run"] ELSE NoCfg]
          /\ scratch = [d \in ScratchDirs |->
                           IF d = TempOutputDir(c.out, c.engine) THEN EmptyDir ELSE NoDir]
          /\ pc = [p \in Procs |->
                      IF p # "p1" THEN "idle"
                      ELSE IF c.engine = "sadtalker" THEN "st_build" ELSE "w2l_build"]
    /\ exc = [p \in Procs |-> NoExc]
    /\ result = [p \in Procs |-> NoResult]
    /\ tempOutput = [p \in Procs |-> NoTemp]
    /\ ffmpegArgs = [p \in Procs |-> NoArgs]
    /\ log = [p \in Procs |->
                 IF p = "p1" THEN <<"Init", "EnsureStart", "ResourcesEnsured">> ELSE <<>>]
    /\ prev = [p \in Procs |-> NoPrev]
    /\ calls = [p \in Procs |-> IF p = "p1" THEN 1 ELSE 0]
    /\ quota = [p \in Procs |-> IF p = "p1" THEN 1 ELSE 0]
    /\ child = [p \in Procs |-> NoChild]
    /\ settings \in Wav2LipSettingsValues
    /\ environ \in [EnvNames -> EnvValues]

NextInvoke ==
    \E p \in Procs :
        \/ StBuild(p)
        \/ W2lBuild(p)

SpecInvoke == InitInvoke /\ [][NextInvoke]_vars

(***************************************************************************)
(* Properties                                                              *)
(***************************************************************************)
\* Every b in l has one of as before it.
Precedes(l, as, b) == \A j \in DOMAIN l : l[j] = b => \E i \in 1..(j - 1) : l[i] \in as

IsRun(p) == cfg[p].kind = "run"

\* The raise sites of provisioning, backend invocation, output selection and the
\* upscale/move step.
RunFailureOrigins ==
    {"git_clone", "download_script", "download_helper", "download", "copy_detector",
     "inference", "select_video", "wav2lip_output", "ffmpeg", "move"}

\* C1: when run() fails in provisioning, in the backend invocation, in output
\* selection or in the upscale/move step, then as run() raises the scratch
\* directory <output-stem>_<engine> exists, no cleanup was executed, and the caller
\* receives the exception that was raised, for every engine and both values of
\* keep_intermediate.
C1_FailureKeepsScratch ==
    \A p \in Procs :
        pc[p] = "failed" /\ IsRun(p) /\ exc[p].origin \in RunFailureOrigins =>
            /\ scratch[MyScratch(p)].exists
            /\ ~Has(log[p], "Cleaned")
            /\ ~Has(log[p], "rmtree")
            /\ result[p] = [kind |-> "raised", value |-> NoOut, exc |-> exc[p]]

\* C1, witness: a run without keep_intermediate whose ffmpeg exited non-zero has
\* raised, and the backend's files are in the scratch directory.
C1_Witness ==
    \E p \in Procs :
        /\ pc[p] = "failed" /\ IsRun(p) /\ ~cfg[p].keep
        /\ exc[p].origin = "ffmpeg"
        /\ scratch[MyScratch(p)].files # <<>>

\* C2: after run() returns normally the returned path is the caller's output
\* path and a file exists there; without keep_intermediate the scratch directory
\* is gone unless its removal failed; with keep_intermediate it still exists.
C2_SuccessPostcondition ==
    \A p \in Procs :
        pc[p] = "done" /\ IsRun(p) =>
            /\ result[p].kind = "returned"
            /\ result[p].value = cfg[p].out
            /\ outputs[cfg[p].out] # NoFile
            /\ (~cfg[p].keep /\ ~Has(log[p], "rmtree_error")
                    => ~scratch[MyScratch(p)].exists)
            /\ (cfg[p].keep => scratch[MyScratch(p)].exists)

\* C2, witness: a run without keep_intermediate has returned and its scratch
\* directory is gone.
C2_Witness ==
    \E p \in Procs :
        /\ pc[p] = "done" /\ IsRun(p) /\ ~cfg[p].keep
        /\ ~scratch[MyScratch(p)].exists
        /\ outputs[cfg[p].out] # NoFile

StageNames ==
    {"Init", "ResourcesEnsured", "Inferred", "Upscaled", "Rearchived", "Cleaned", "Done"}

StagesOf(l) == SelectSeq(l, LAMBDA e : e \in StageNames)

\* The place of a stage in Init -> ResourcesEnsured -> Inferred ->
\* (Upscaled | Rearchived) -> Cleaned -> Done.
StageRank(e) ==
    CASE e = "Init" -> 1
      [] e = "ResourcesEnsured" -> 2
      [] e = "Inferred" -> 3
      [] e \in {"Upscaled", "Rearchived"} -> 4
      [] e = "Cleaned" -> 5
      [] e = "Done" -> 6

\* C3: in every execution of run() the stages reached so far are, in order, a
\* prefix of Init, ResourcesEnsured, Inferred, Upscaled or Rearchived, Cleaned,
\* Done; the inference process is started only after ensure() returned in this
\* run, the upscale or move only after the invoker returned a produced file, and
\* the cleanup only after the upscale or move succeeded.
C3_StageOrder ==
    \A p \in Procs :
        IsRun(p) =>
            /\ \A i \in DOMAIN StagesOf(log[p]) : StageRank(StagesOf(log[p])[i]) = i
            /\ Precedes(log[p], {"ResourcesEnsured"}, "infer")
            /\ Precedes(log[p], {"Inferred"}, "upscale")
            /\ Precedes(log[p], {"Inferred"}, "move")
            /\ Precedes(log[p], {"Upscaled", "Rearchived"}, "rmtree")
            /\ Precedes(log[p], {"Upscaled", "Rearchived"}, "Cleaned")

\* C3, witness: a run has gone through every stage, the upscale among them.
C3_Witness ==
    \E p \in Procs :
        /\ pc[p] = "done" /\ IsRun(p)
        /\ StagesOf(log[p]) =
               <<"Init", "ResourcesEnsured", "Inferred", "Upscaled", "Cleaned", "Done">>

\* The acquisitions of ensure(): clone, download helper, direct downloads, and the
\* copy of the face detector into the repository tree.
Acquisitions == {"clone", "helper", "dl_wav", "dl_s3fd", "copy"}

\* C4: when ensure() is called right after an ensure() that returned normally,
\* the second call performs no clone, no download-helper execution, no direct
\* download and no checkpoint copy.
C4_EnsureIdempotent ==
    \A p \in Procs :
        cfg[p].kind = "ensure" /\ prev[p].kind = "ensure" /\ prev[p].ok =>
            \A e \in Acquisitions : ~Has(log[p], e)

\* C5: whenever ensure() has returned normally, every path the bundle exposes is
\* an existing, non-empty file or directory: repo_path and checkpoints_path, and
\* for Wav2Lip wav2lip_checkpoint and face_detector_checkpoint.
C5_EnsuredPathsExist ==
    \A p \in Procs :
        Has(log[p], "ResourcesEnsured") =>
            /\ cfg[p].engine = "sadtalker" => stCache.repo /\ stCache.ckpts
            /\ cfg[p].engine = "wav2lip" =>
                   /\ w2lCache.repo
                   /\ w2lCache.ckptDir
                   /\ FileExists(w2lCache.wav)
                   /\ FileExists(w2lCache.s3fd)

\* C6: once a download of this call has written content that does not match the
\* checkpoint's checksum, ensure() raises IntegrityError; and no call of ensure()
\* returns normally while such a file is in place as a checkpoint.
C6_CorruptCheckpointRejected ==
    \A p \in Procs :
        /\ Has(log[p], "dl_wav") /\ pc[p] # "w2l_download_wav"
               /\ w2lCache.wav = "corrupt" => exc[p].type = "IntegrityError"
        /\ Has(log[p], "dl_s3fd") /\ pc[p] # "w2l_download_s3fd"
               /\ w2lCache.s3fd = "corrupt" => exc[p].type = "IntegrityError"
        /\ Has(log[p], "ResourcesEnsured") /\ cfg[p].engine = "wav2lip" =>
               w2lCache.wav # "corrupt" /\ w2lCache.s3fd # "corrupt"

\* The external commands of a run.
Commands == {"clone", "helper", "dl_wav", "dl_s3fd", "infer", "upscale"}

StageKind(origin) ==
    IF origin \in {"git_clone", "download_script", "download_helper", "download"}
    THEN "acquisition"
    ELSE IF origin = "inference" THEN "inference"
    ELSE IF origin = "ffmpeg" THEN "upscale"
    ELSE "other"

\* C8: a failed call delivers AcquisitionError for a failed clone or download or a
\* missing download helper, InferenceProcessError for a non-zero exit of the
\* inference process, UpscaleError for a non-zero exit of the media tool; and two
\* failures of different ones of these stages deliver errors of different kinds.
C8_ErrorKinds ==
    \A p \in Procs :
        pc[p] = "failed" =>
            /\ StageKind(exc[p].origin) = "acquisition"
                   => result[p].exc.type = "AcquisitionError"
            /\ StageKind(exc[p].origin) = "inference"
                   => result[p].exc.type = "InferenceProcessError"
            /\ StageKind(exc[p].origin) = "upscale"
                   => result[p].exc.type = "UpscaleError"
            /\ (/\ prev[p].exc # NoExc
                /\ StageKind(prev[p].exc.origin) # "other"
                /\ StageKind(exc[p].origin) # "other"
                /\ StageKind(prev[p].exc.origin) # StageKind(exc[p].origin))
                   => prev[p].exc.type # result[p].exc.type

\* C9: in a successful run exactly one finishing step is executed. Without
\* upscale_to_1080p ffmpeg is never started, the file at the output path is the
\* produced file as it was, and the produced file is gone from the scratch
\* directory; with it ffmpeg is started once, from the produced file to the
\* output path, and nothing is moved.
C9_OneFinishingStep ==
    \A p \in Procs :
        pc[p] \in {"cleanup", "return", "done"} /\ IsRun(p) =>
            IF ~cfg[p].upscale
            THEN /\ ~Has(log[p], "upscale")
                 /\ ffmpegArgs[p] = NoArgs
                 /\ Count(log[p], "move") = 1
                 /\ outputs[cfg[p].out] = [name |-> tempOutput[p].name,
                                           by |-> tempOutput[p].by, up |-> FALSE]
                 /\ tempOutput[p].name \notin NamesIn(scratch[MyScratch(p)].files)
            ELSE /\ Count(log[p], "upscale") = 1
                 /\ ffmpegArgs[p] = [src |-> tempOutput[p].name, dst |-> cfg[p].out]
                 /\ ~Has(log[p], "move")
                 /\ outputs[cfg[p].out] = [name |-> tempOutput[p].name,
                                           by |-> tempOutput[p].by, up |-> TRUE]
                 /\ (pc[p] = "cleanup" \/ cfg[p].keep
                         => tempOutput[p].name \in NamesIn(scratch[MyScratch(p)].files))

\* C9, witness: a run without upscale that keeps its scratch directory has
\* returned, and the output path holds a file this run's backend wrote, over the
\* output of an earlier run.
C9_Witness ==
    \E p \in Procs :
        /\ pc[p] = "done" /\ IsRun(p) /\ ~cfg[p].upscale /\ cfg[p].keep
        /\ prev[p].kind = "run" /\ prev[p].ok
        /\ outputs[cfg[p].out].by = p

Mp4In(dir) == {n \in NamesIn(dir.files) : GlobMp4(n)}

\* C10: after the backend process exited successfully, when the destination
\* directory holds exactly one matching file (SadTalker: one *.mp4 directly in
\* it; Wav2Lip: result.mp4), the invoker returns that file's path, and does not
\* raise.
C10_SingleOutputReturned ==
    \A p \in Procs :
        /\ pc[p] = "finish" /\ cfg[p].engine = "sadtalker"
               /\ Cardinality(Mp4In(scratch[MyScratch(p)])) = 1
               => tempOutput[p].name \in Mp4In(scratch[MyScratch(p)])
        /\ pc[p] = "finish" /\ cfg[p].engine = "wav2lip"
               /\ "result.mp4" \in NamesIn(scratch[MyScratch(p)].files)
               => tempOutput[p].name = "result.mp4"
        /\ pc[p] = "unwind" /\ exc[p].origin = "select_video"
               => Mp4In(scratch[MyScratch(p)]) = {}
        /\ pc[p] = "unwind" /\ exc[p].origin = "wav2lip_output"
               => "result.mp4" \notin NamesIn(scratch[MyScratch(p)].files)

\* C10, witness: SadTalker's result directory holds result.mp4 as its only *.mp4
\* beside a.txt, which sorts before it, and the invoker has returned result.mp4.
C10_Witness ==
    \E p \in Procs :
        /\ pc[p] = "finish" /\ cfg[p].engine = "sadtalker"
        /\ NamesIn(scratch[MyScratch(p)].files) = {"a.txt", "result.mp4"}
        /\ tempOutput[p].name = "result.mp4"

\* The raise sites of the two invokers for an absent output file.
MissingOutputOrigins == {"select_video", "wav2lip_output"}

\* C11: after the backend process exited successfully, when the destination
\* directory holds no matching output file the invoker raises MissingOutputError,
\* and run() then starts no upscale and no move; and a path the invoker returns
\* names a file that exists.
C11_MissingOutputRaised ==
    \A p \in Procs :
        /\ exc[p].origin \in MissingOutputOrigins =>
               /\ exc[p].type = "MissingOutputError"
               /\ ~Has(log[p], "upscale") /\ ~Has(log[p], "move")
               /\ outputs[cfg[p].out].by # p
        /\ pc[p] = "finish" =>
               tempOutput[p].name \in NamesIn(scratch[MyScratch(p)].files)

\* C11, what the code does: the SadTalker backend exited 0 and left no *.mp4; the
\* run has failed with FileNotFoundError, with no upscale and no move.
C11_Witness ==
    \E p \in Procs :
        /\ pc[p] = "failed" /\ IsRun(p)
        /\ exc[p] = [type |-> "FileNotFoundError", origin |-> "select_video"]
        /\ Mp4In(scratch[MyScratch(p)]) = {}
        /\ ~Has(log[p], "upscale") /\ ~Has(log[p], "move")

\* The *.mp4 files of a directory, oldest write first.
Mp4ByTime(dir) == SelectSeq(dir.files, LAMBDA f : GlobMp4(f.name))

\* C12: when SadTalker's destination directory holds several *.mp4 files after a
\* successful exit, the invoker selects the one written last; a warning is logged
\* exactly when there is more than one candidate.
C12_MostRecentSelected ==
    \A p \in Procs :
        pc[p] = "finish" /\ cfg[p].engine = "sadtalker" =>
            LET mp4 == Mp4ByTime(scratch[MyScratch(p)])
            IN  /\ mp4 # <<>>
                /\ tempOutput[p].name = mp4[Len(mp4)].name
                /\ Has(log[p], "warning") <=> Len(mp4) > 1

\* C12, what the code does: with several candidates the invoker has logged the
\* warning and selected the first name in sorted order, which was not written last.
C12_Witness ==
    \E p \in Procs :
        /\ pc[p] = "finish" /\ cfg[p].engine = "sadtalker"
        /\ Len(Mp4ByTime(scratch[MyScratch(p)])) = 2
        /\ Has(log[p], "warning")
        /\ tempOutput[p].name = Candidates(scratch[MyScratch(p)])[1]
        /\ tempOutput[p].name # Mp4ByTime(scratch[MyScratch(p)])[2].name

\* The command holds flag, directly followed by values.
FlagWith(cmd, flag, values) ==
    \E i \in DOMAIN cmd :
        /\ cmd[i] = flag
        /\ i + Len(values) <= Len(cmd)
        /\ SubSeq(cmd, i + 1, i + Len(values)) = values

\* C13: for every Wav2LipSettings value the Wav2Lip command carries each field as
\* its flag: --pads with its four values always, --static and --nosmooth as the
\* booleans say, each batch-size flag with its value whenever a batch size is
\* given, --resize_factor with the value whenever the resize factor is set to
\* something other than its default 1.0, and --crop with the four values whenever
\* a crop rectangle is set.
C13_SettingsAsFlags ==
    \A p \in Procs :
        pc[p] = "w2l_inference" =>
            LET cmd == child[p].command
            IN  /\ FlagWith(cmd, "--pads", StrAll(settings.pads))
                /\ settings.static <=> FlagWith(cmd, "--static", <<>>)
                /\ settings.nosmooth <=> FlagWith(cmd, "--nosmooth", <<>>)
                /\ settings.wav2lip_batch_size # <<>> =>
                       FlagWith(cmd, "--wav2lip_batch_size",
                                StrAll(settings.wav2lip_batch_size))
                /\ settings.face_det_batch_size # <<>> =>
                       FlagWith(cmd, "--face_det_batch_size",
                                StrAll(settings.face_det_batch_size))
                /\ settings.resize_factor # 10 =>
                       FlagWith(cmd, "--resize_factor",
                                <<StrFloat(settings.resize_factor)>>)
                /\ settings.crop # <<>> => FlagWith(cmd, "--crop", StrAll(settings.crop))

\* C13, the spec's example: crop (0, 0, 100, 100) and resize factor 0.5 give
\* --crop 0 0 100 100 and --resize_factor 0.5.
C13_Witness ==
    \E p \in Procs :
        /\ pc[p] = "w2l_inference"
        /\ settings.crop = <<0, 0, 100, 100>> /\ settings.resize_factor = 5
        /\ FlagWith(child[p].command, "--crop", <<"0", "0", "100", "100">>)
        /\ FlagWith(child[p].command, "--resize_factor", <<"0.5">>)

\* C17: for every parent environment the inference child runs in the backend's
\* source tree, its PYTHONPATH is the source tree, and for Wav2Lip its
\* WAV2LIP_CHECKPOINT_PATH and S3FD_PATH are the two checkpoint files (SadTalker's
\* checkpoints lie inside its source tree).
C17_ChildEnvironment ==
    \A p \in Procs :
        /\ pc[p] = "st_inference" =>
               /\ child[p].cwd = StRepoPath
               /\ child[p].env["PYTHONPATH"] = StRepoPath
        /\ pc[p] = "w2l_inference" =>
               /\ child[p].cwd = W2lRepoPath
               /\ child[p].env["PYTHONPATH"] = W2lRepoPath
               /\ child[p].env["WAV2LIP_CHECKPOINT_PATH"] = W2lCheckpoint
               /\ child[p].env["S3FD_PATH"] = W2lFaceDetector

\* C17, what holds: from a parent environment that defines none of the three
\* variables the Wav2Lip child gets all three, and runs in the source tree.
C17_Witness ==
    \E p \in Procs :
        /\ pc[p] = "w2l_inference"
        /\ environ = EmptyEnviron
        /\ child[p].cwd = W2lRepoPath
        /\ child[p].env = [k \in EnvNames |->
                              IF k = "PYTHONPATH" THEN W2lRepoPath
                              ELSE IF k = "S3FD_PATH" THEN W2lFaceDetector
                              ELSE W2lCheckpoint]

\* C14: two runs with the same engine and distinct output paths have distinct
\* scratch directories; neither selects a file the other's backend wrote, and
\* between its init step and its finishing step a run's scratch directory exists.
C14_OwnScratchDirectory ==
    \A p, q \in Procs :
        (/\ p # q /\ IsRun(p) /\ IsRun(q)
         /\ cfg[p].engine = cfg[q].engine
         /\ cfg[p].out # cfg[q].out) =>
            /\ MyScratch(p) # MyScratch(q)
            /\ tempOutput[p].by # q
            /\ pc[p] \in {"dispatch", "st_build", "st_inference", "st_select",
                          "w2l_build", "w2l_inference", "w2l_check_output", "finish"}
                   => scratch[MyScratch(p)].exists

\* C14, what holds: two runs to out.mp4 and clip.mp4 have both returned, each
\* with its own scratch directory kept and its own backend's file at its output.
C14_Witness ==
    /\ pc["p1"] = "done" /\ pc["p2"] = "done"
    /\ IsRun("p1") /\ IsRun("p2")
    /\ MyScratch("p1") # MyScratch("p2")
    /\ scratch[MyScratch("p1")].exists /\ scratch[MyScratch("p2")].exists
    /\ outputs[cfg["p1"].out].by = "p1" /\ outputs[cfg["p2"].out].by = "p2"

\* C19: no lock guards the check-then-acquire sequence of ensure(). While one
\* run is cloning into repo_path(), which does not exist yet, another run's
\* ensure() can take its own check and start the clone too; and while one run is
\* downloading the Wav2Lip checkpoint another run can start the same download.
C19_UnguardedProvisioning ==
    \A p, q \in Procs :
        p # q =>
            /\ pc[p] = "st_git_clone" /\ pc[q] = "st_ensure" /\ ~stCache.repo
                   => ENABLED (StEnsure(q) /\ pc'[q] = "st_git_clone")
            /\ pc[p] = "w2l_git_clone" /\ pc[q] = "w2l_ensure" /\ ~w2lCache.repo
                   => ENABLED (W2lEnsure(q) /\ pc'[q] = "w2l_git_clone")
            /\ pc[p] = "w2l_download_wav" /\ pc[q] = "w2l_check_wav"
                   /\ ~FileExists(w2lCache.wav)
                   => ENABLED (W2lCheckWav(q) /\ pc'[q] = "w2l_download_wav")

\* C19, witness: two concurrent runs have both found SadTalker's repository
\* absent and both have a clone into repo_path() under way.
C19_Witness ==
    /\ IsRun("p1") /\ IsRun("p2")
    /\ pc["p1"] = "st_git_clone" /\ pc["p2"] = "st_git_clone"
    /\ ~stCache.repo
    /\ Has(log["p1"], "clone") /\ Has(log["p2"], "clone")

\* C15: run() with an engine that is neither sadtalker nor wav2lip does not
\* return; it fails with ConfigurationError.
C15_UnsupportedEngine ==
    \A p \in Procs :
        IsRun(p) /\ cfg[p].engine \notin {"sadtalker", "wav2lip"} =>
            /\ pc[p] \notin {"return", "done"}
            /\ pc[p] \in {"unwind", "failed"} => exc[p].type = "ConfigurationError"

\* C15, what the code does: the run has failed with ValueError from the else
\* branch of the dispatch, after its init step created the scratch directory.
C15_Witness ==
    \E p \in Procs :
        /\ pc[p] = "failed" /\ IsRun(p)
        /\ result[p].exc = [type |-> "ValueError", origin |-> "engine"]
        /\ scratch[MyScratch(p)] = EmptyDir

\* The blocks of each backend's provisioning and invocation.
StBlocks ==
    {"st_ensure", "st_git_clone", "st_check_ckpt", "st_download_checkpoints",
     "st_helper", "st_build", "st_inference", "st_select"}

W2lBlocks ==
    {"w2l_ensure", "w2l_git_clone", "w2l_check_wav", "w2l_download_wav",
     "w2l_check_s3fd", "w2l_download_s3fd", "w2l_sync", "w2l_build", "w2l_inference",
     "w2l_check_output"}

\* The pipeline's fields, without the kind of the caller's current call.
PipelineOf(c) == [engine |-> c.engine, upscale |-> c.upscale, keep |-> c.keep]

\* C16: a caller whose pipeline has engine sadtalker never executes a block of
\* Wav2LipResources.ensure() or _run_wav2lip and the Wav2Lip cache root stays as
\* it was, and symmetrically for engine wav2lip; and no step changes a field of
\* the pipeline or of its settings.
C16_SelectedBackendOnly ==
    /\ [](\A p \in Procs :
             /\ cfg[p].engine = "sadtalker" =>
                    pc[p] \notin W2lBlocks /\ w2lCache = FreshW2lCache
             /\ cfg[p].engine = "wav2lip" =>
                    pc[p] \notin StBlocks /\ stCache = FreshStCache)
    /\ [][/\ \A p \in Procs : PipelineOf(cfg'[p]) = PipelineOf(cfg[p])
          /\ settings' = settings]_vars

\* C16, witness: a SadTalker run has returned, with SadTalker's cache root
\* provisioned and the Wav2Lip cache root untouched.
C16_Witness ==
    \E p \in Procs :
        /\ pc[p] = "done" /\ IsRun(p) /\ cfg[p].engine = "sadtalker"
        /\ stCache.root /\ stCache.repo
        /\ w2lCache = FreshW2lCache

\* From the end of the init step to the return of the inference process.
BeforeBackendReturns ==
    {"dispatch", "st_build", "st_inference", "w2l_build", "w2l_inference"}
    \cup (StBlocks \ {"st_select"}) \cup (W2lBlocks \ {"w2l_check_output"})

\* C18: after the init step of run() the output's parent directory and the
\* scratch directory exist; without keep_intermediate the scratch directory is
\* empty from then until the backend process comes back, whatever it held before;
\* with keep_intermediate a scratch directory that existed is left with its
\* contents as they were; no other scratch directory is touched.
C18_InitStep ==
    /\ [](\A p \in Procs :
             IsRun(p) /\ pc[p] \in BeforeBackendReturns =>
                 /\ parentDir
                 /\ scratch[MyScratch(p)].exists
                 /\ ~cfg[p].keep => scratch[MyScratch(p)] = EmptyDir)
    /\ [][\A p \in Procs :
             pc[p] = "run_init" /\ pc'[p] = "dispatch" =>
                 /\ parentDir'
                 /\ scratch'[MyScratch(p)].exists
                 /\ ~cfg[p].keep => scratch'[MyScratch(p)] = EmptyDir
                 /\ cfg[p].keep /\ scratch[MyScratch(p)].exists
                        => scratch'[MyScratch(p)] = scratch[MyScratch(p)]
                 /\ \A d \in ScratchDirs \ {MyScratch(p)} : scratch'[d] = scratch[d]]_vars

\* C18, witness: the earlier run failed in ffmpeg and left its files in the
\* scratch directory; this run, without keep_intermediate, has done its init step
\* and the directory is empty.
C18_Witness ==
    \E p \in Procs :
        /\ pc[p] = "dispatch" /\ IsRun(p) /\ ~cfg[p].keep
        /\ prev[p].kind = "run" /\ prev[p].exc.origin = "ffmpeg"
        /\ scratch[MyScratch(p)] = EmptyDir
        /\ parentDir

\* C20: the video a run() that returned has put at the output path was written
\* into the scratch directory by the backend process of that run.
C20_DeliveredFromThisRun ==
    \A p \in Procs :
        pc[p] = "done" /\ IsRun(p) => outputs[cfg[p].out].by = p

\* C20, what holds: without keep_intermediate a run that follows a failed run
\* has returned, and the file at the output path is from its own backend.
C20_Witness ==
    \E p \in Procs :
        /\ pc[p] = "done" /\ IsRun(p) /\ ~cfg[p].keep
        /\ prev[p].kind = "run" /\ prev[p].exc.origin = "ffmpeg"
        /\ outputs[cfg[p].out].by = p

\* C21: SadTalkerResources.ensure() goes into the checkpoint download exactly
\* when the checkpoints directory holds no entry; there it raises
\* FileNotFoundError without starting the helper when the helper script is absent
\* from the tree, and starts the helper otherwise; and a call that follows a
\* failed helper run and finds an entry in the checkpoints directory (one is
\* there and this call's helper did not put it) clones nothing, does not enter the
\* download and does not fail in ensure().
C21_DownloadIffNoCheckpoint ==
    /\ [](\A p \in Procs :
             cfg[p].engine = "sadtalker" /\ prev[p].exc.origin = "download_helper"
                 /\ stCache.ckpts /\ ~Has(log[p], "helper") =>
                 /\ ~Has(log[p], "clone")
                 /\ pc[p] \notin {"st_download_checkpoints", "st_helper"}
                 /\ exc[p].origin \notin {"git_clone", "download_script",
                                          "download_helper"})
    /\ [][\A p \in Procs :
             /\ pc[p] = "st_check_ckpt" /\ pc'[p] # pc[p] =>
                    IF stCache.ckpts
                    THEN /\ Has(log'[p], "ResourcesEnsured")
                         /\ ~Has(log'[p], "helper")
                         /\ pc'[p] \in {"st_build", "done"}
                    ELSE pc'[p] = "st_download_checkpoints"
             /\ pc[p] = "st_download_checkpoints" /\ pc'[p] # pc[p] =>
                    IF stCache.script
                    THEN pc'[p] = "st_helper" /\ Count(log'[p], "helper") = 1
                    ELSE /\ pc'[p] = "unwind"
                         /\ exc'[p] = [type |-> "FileNotFoundError",
                                       origin |-> "download_script"]
                         /\ ~Has(log'[p], "helper")]_vars

\* C21, witness: the helper of the earlier call exited non-zero but left an entry
\* under checkpoints/; this ensure() has returned without starting the helper.
C21_Witness ==
    \E p \in Procs :
        /\ pc[p] = "done" /\ cfg[p].kind = "ensure" /\ cfg[p].engine = "sadtalker"
        /\ prev[p].exc.origin = "download_helper"
        /\ stCache.ckpts
        /\ Has(log[p], "ResourcesEnsured") /\ ~Has(log[p], "helper")

\* The acquisitions of Wav2LipResources.ensure() that a call has started, in order.
W2lAcquired(l) == SelectSeq(l, LAMBDA e : e \in Acquisitions)

\* The place of an acquisition in clone, checkpoint, face detector, mirror.
W2lRank(e) ==
    CASE e = "clone" -> 1
      [] e = "dl_wav" -> 2
      [] e = "dl_s3fd" -> 3
      [] e = "copy" -> 4
      [] OTHER -> 0

\* C22: Wav2LipResources.ensure() starts its acquisitions in the order clone,
\* lip-sync checkpoint, face-detector checkpoint, mirror; whenever it has returned
\* the mirrored face detector exists in the repository tree; no step removes or
\* replaces what an earlier step or call left in the cache root; and each of the
\* four steps is taken exactly when its target does not exist.
C22_Wav2LipEnsureOrder ==
    /\ [](\A p \in Procs :
             cfg[p].engine = "wav2lip" =>
                 /\ \A i, j \in DOMAIN W2lAcquired(log[p]) :
                        i < j => W2lRank(W2lAcquired(log[p])[i])
                                     < W2lRank(W2lAcquired(log[p])[j])
                 /\ Has(log[p], "ResourcesEnsured") =>
                        w2lCache.repo /\ FileExists(w2lCache.mirror))
    /\ [][/\ w2lCache.repo => w2lCache'.repo
          /\ FileExists(w2lCache.wav) => w2lCache'.wav = w2lCache.wav
          /\ FileExists(w2lCache.s3fd) => w2lCache'.s3fd = w2lCache.s3fd
          /\ FileExists(w2lCache.mirror) => w2lCache'.mirror = w2lCache.mirror
          /\ \A p \in Procs :
                /\ pc[p] = "w2l_ensure" /\ pc'[p] # pc[p] =>
                       (Has(log'[p], "clone") <=> ~w2lCache.repo)
                /\ pc[p] = "w2l_check_wav" /\ pc'[p] # pc[p] =>
                       (Has(log'[p], "dl_wav") <=> ~FileExists(w2lCache.wav))
                /\ pc[p] = "w2l_check_s3fd" /\ pc'[p] # pc[p] =>
                       (Has(log'[p], "dl_s3fd") <=> ~FileExists(w2lCache.s3fd))
                /\ pc[p] = "w2l_sync" /\ pc'[p] # pc[p] =>
                       (Has(log'[p], "copy") <=> ~FileExists(w2lCache.mirror))]_vars

\* C22, witness: the earlier call cloned, downloaded the lip-sync checkpoint and
\* failed in the download of the face detector; this ensure() has skipped the
\* clone and the first download, downloaded the face detector, mirrored it and
\* returned.
C22_Witness ==
    \E p \in Procs :
        /\ pc[p] = "done" /\ cfg[p].kind = "ensure" /\ cfg[p].engine = "wav2lip"
        /\ prev[p].exc.origin = "download"
        /\ W2lAcquired(log[p]) = <<"dl_s3fd", "copy">>
        /\ FileExists(w2lCache.wav) /\ FileExists(w2lCache.mirror)

\* What a directory holds that earlier processes left in it.
OldFiles(dir) == SelectSeq(dir.files, LAMBDA f : f.by = "old")

\* C23: a run() with an unsupported engine executes no block of a provisioner or
\* an invoker and starts no clone, download, inference or media tool, and both
\* cache roots stay as they were; when it raises, from the else branch of the
\* dispatch, the init step has been done: the parent directory and the scratch
\* directory exist, and the scratch directory is empty when keep_intermediate is
\* false and holds what it held before when keep_intermediate is true.
C23_UnsupportedEngineEffects ==
    /\ [](\A p \in Procs :
             IsRun(p) /\ cfg[p].engine \notin {"sadtalker", "wav2lip"} =>
                 /\ pc[p] \in {"run_init", "dispatch", "unwind", "failed"}
                 /\ \A e \in Commands \cup Acquisitions \cup {"EnsureStart"} :
                        ~Has(log[p], e)
                 /\ child[p] = NoChild /\ ffmpegArgs[p] = NoArgs
                 /\ stCache = FreshStCache /\ w2lCache = FreshW2lCache
                 /\ pc[p] \in {"unwind", "failed"} =>
                        /\ exc[p].origin = "engine"
                        /\ log[p] = <<"Init", "raise">>
                        /\ parentDir
                        /\ scratch[MyScratch(p)].exists
                        /\ ~cfg[p].keep => scratch[MyScratch(p)] = EmptyDir)
    /\ [][\A p \in Procs :
             /\ IsRun(p) /\ cfg[p].engine \notin {"sadtalker", "wav2lip"}
             /\ cfg[p].keep /\ scratch[MyScratch(p)].exists
             => scratch'[MyScratch(p)] = scratch[MyScratch(p)]]_vars

\* C23, witness: a directory out_other with a video in it was there before; the
\* run, with keep_intermediate, has raised from the dispatch after its init step
\* and the directory still holds the video.
C23_Witness ==
    \E p \in Procs :
        /\ pc[p] = "failed" /\ IsRun(p) /\ cfg[p].engine = "other" /\ cfg[p].keep
        /\ result[p].exc.origin = "engine"
        /\ Has(log[p], "Init")
        /\ parentDir
        /\ OldFiles(scratch[MyScratch(p)]) # <<>>

====
